---- MODULE Spec2Model ----
(***************************************************************************)
(* Consultologist: the schema-validated generation pipeline of the chat    *)
(* endpoints (api/chat/index.js and its sibling variants).                 *)
(*                                                                         *)
(* A request handler is an async function; it is modelled as one action    *)
(* per segment of code that runs between two awaits.  Text (request body,  *)
(* generated text, messages) is a sequence of tokens or symbols so that    *)
(* JSON.parse, trim and join act on it the way the code's calls do.        *)
(***************************************************************************)
EXTENDS Integers, Sequences, FiniteSets, TLC

(***************************************************************************)
(* JavaScript values                                                       *)
(***************************************************************************)
Undef == [t |-> "undefined"]

NullV == [t |-> "null"]

Num(n) == [t |-> "number", n |-> n]

\* a string value is a sequence of symbols; " " is a whitespace character
Str(s) == [t |-> "string", s |-> s]

Bool(b) == [t |-> "boolean", b |-> b]

Arr(items) == [t |-> "array", items |-> items]

\* fields: sequence of [k |-> key, v |-> value] in insertion order
Obj(fields) == [t |-> "object", fields |-> fields]

Truthy(x) ==
  CASE x.t = "undefined" -> FALSE
    [] x.t = "null"      -> FALSE
    [] x.t = "number"    -> x.n # 0
    [] x.t = "string"    -> x.s # <<>>
    [] x.t = "boolean"   -> x.b
    [] OTHER             -> TRUE

TypeOf(x) ==
  CASE x.t = "null"  -> "object"
    [] x.t = "array" -> "object"
    [] OTHER         -> x.t

HasKey(fields, key) == \E i \in 1..Len(fields) : fields[i].k = key

\* the value of the last field named key (a repeated key keeps the last)
FieldValue(fields, key) ==
  LET idx == CHOOSE i \in 1..Len(fields) :
               /\ fields[i].k = key
               /\ \A j \in (i+1)..Len(fields) : fields[j].k # key
  IN fields[idx].v

\* x.key for a value that is neither null nor undefined
GetProp(x, key) ==
  IF x.t = "object" /\ HasKey(x.fields, key)
  THEN FieldValue(x.fields, key)
  ELSE Undef

(***************************************************************************)
(* Text as tokens, and JSON.parse                                          *)
(***************************************************************************)
P(c) == [k |-> "punct", c |-> c]

S(s) == [k |-> "str", s |-> s]

N(n) == [k |-> "num", n |-> n]

L(w) == [k |-> "lit", w |-> w]

W(w) == [k |-> "word", w |-> w]

WS == [k |-> "ws"]

RECURSIVE SkipWs(_, _)
SkipWs(toks, i) ==
  IF i <= Len(toks) /\ toks[i].k = "ws" THEN SkipWs(toks, i + 1) ELSE i

IsPunct(toks, i, c) == i <= Len(toks) /\ toks[i] = P(c)

ParseFail == [ok |-> FALSE, v |-> Undef, next |-> 0]

ParseDone(v, next) == [ok |-> TRUE, v |-> v, next |-> next]

RECURSIVE ParseValue(_, _)
RECURSIVE ParseMembers(_, _, _)
RECURSIVE ParseElements(_, _, _)

\* members of an object after "{" or ",": string ":" value, then "," or "}"
ParseMembers(toks, i0, acc) ==
  LET i == SkipWs(toks, i0) IN
  IF ~(i <= Len(toks) /\ toks[i].k = "str") THEN ParseFail
  ELSE LET c == SkipWs(toks, i + 1) IN
       IF ~IsPunct(toks, c, ":") THEN ParseFail
       ELSE LET r == ParseValue(toks, c + 1) IN
            IF ~r.ok THEN ParseFail
            ELSE LET j    == SkipWs(toks, r.next)
                     acc2 == Append(acc, [k |-> toks[i].s, v |-> r.v])
                 IN IF IsPunct(toks, j, ",") THEN ParseMembers(toks, j + 1, acc2)
                    ELSE IF IsPunct(toks, j, "}") THEN ParseDone(Obj(acc2), j + 1)
                    ELSE ParseFail

\* elements of an array after "[" or ",": value, then "," or "]"
ParseElements(toks, i0, acc) ==
  LET r == ParseValue(toks, i0) IN
  IF ~r.ok THEN ParseFail
  ELSE LET j    == SkipWs(toks, r.next)
           acc2 == Append(acc, r.v)
       IN IF IsPunct(toks, j, ",") THEN ParseElements(toks, j + 1, acc2)
          ELSE IF IsPunct(toks, j, "]") THEN ParseDone(Arr(acc2), j + 1)
          ELSE ParseFail

ParseValue(toks, i0) ==
  LET i == SkipWs(toks, i0) IN
  IF i > Len(toks) THEN ParseFail
  ELSE LET tk == toks[i] IN
    CASE tk.k = "num" -> ParseDone(Num(tk.n), i + 1)
      [] tk.k = "str" -> ParseDone(Str(tk.s), i + 1)
      [] tk.k = "lit" ->
           IF tk.w = "null" THEN ParseDone(NullV, i + 1)
           ELSE IF tk.w = "true" THEN ParseDone(Bool(TRUE), i + 1)
           ELSE IF tk.w = "false" THEN ParseDone(Bool(FALSE), i + 1)
           ELSE ParseFail
      [] tk = P("{") ->
           LET j == SkipWs(toks, i + 1) IN
           IF IsPunct(toks, j, "}") THEN ParseDone(Obj(<<>>), j + 1)
           ELSE ParseMembers(toks, j, <<>>)
      [] tk = P("[") ->
           LET j == SkipWs(toks, i + 1) IN
           IF IsPunct(toks, j, "]") THEN ParseDone(Arr(<<>>), j + 1)
           ELSE ParseElements(toks, j, <<>>)
      [] OTHER -> ParseFail

\* a parser that stops at the end of the first value and ignores the rest
JSONparse_Lenient(toks) ==
  LET r == ParseValue(toks, 1) IN
  IF r.ok THEN [ok |-> TRUE, v |-> r.v] ELSE [ok |-> FALSE, v |-> Undef]

\* JSON.parse(text): one value, nothing but whitespace after it
JSONparse(toks) ==
  LET r == ParseValue(toks, 1) IN
  IF r.ok /\ SkipWs(toks, r.next) = Len(toks) + 1
  THEN [ok |-> TRUE, v |-> r.v]
  ELSE [ok |-> FALSE, v |-> Undef]


\* String.prototype.trim on a text: drop leading and trailing whitespace
RECURSIVE TrimLeft(_)
TrimLeft(toks) ==
  IF toks # <<>> /\ Head(toks).k = "ws" THEN TrimLeft(Tail(toks)) ELSE toks

RECURSIVE TrimRight(_)
TrimRight(toks) ==
  IF toks # <<>> /\ toks[Len(toks)].k = "ws"
  THEN TrimRight(SubSeq(toks, 1, Len(toks) - 1))
  ELSE toks

Trim(toks) == TrimRight(TrimLeft(toks))

(***************************************************************************)
(* Schema document and compiled validator                                  *)
(***************************************************************************)
K_front_matter == <<"front_matter">>

K_receptors == <<"receptors">>

K_patient == <<"patient">>

K_prompt == <<"prompt">>

\* mortigen_render_context.schema.json: an object root with required,
\* nested object fields
SchemaDoc ==
  [type |-> "object",
   required |-> <<K_front_matter>>,
   properties |-> <<[k |-> K_front_matter,
                     schema |-> [type |-> "object",
                                 required |-> <<K_patient, K_receptors>>,
                                 properties |-> <<>>]]>>]

Violation(path, message, keyword) ==
  [instancePath |-> path, message |-> message, keyword |-> keyword]

RECURSIVE RequiredErrors(_, _, _)
RequiredErrors(required, data, path) ==
  IF required = <<>> THEN <<>>
  ELSE (IF HasKey(data.fields, Head(required)) THEN <<>>
        ELSE <<Violation(path,
                         <<"must have required property '">> \o Head(required) \o <<"'">>,
                         "required")>>)
       \o RequiredErrors(Tail(required), data, path)

RECURSIVE AjvErrors(_, _, _)
RECURSIVE PropertyErrors(_, _, _)

PropertyErrors(props, data, path) ==
  IF props = <<>> THEN <<>>
  ELSE (IF HasKey(data.fields, Head(props).k)
        THEN AjvErrors(Head(props).schema,
                       FieldValue(data.fields, Head(props).k),
                       path \o <<"/">> \o Head(props).k)
        ELSE <<>>)
       \o PropertyErrors(Tail(props), data, path)

\* the errors of validate(data) with allErrors: the type keyword guards the
\* object keywords, required is evaluated before properties
AjvErrors(schema, data, path) ==
  IF data.t # schema.type
  THEN <<Violation(path, <<"must be ", schema.type>>, "type")>>
  ELSE RequiredErrors(schema.required, data, path)
       \o PropertyErrors(schema.properties, data, path)

\* options that let the compiled validator drop undeclared fields
AjvOptions_RemoveAdditional ==
  [allErrors |-> TRUE, strict |-> TRUE,
   useDefaults |-> FALSE, coerceTypes |-> FALSE, removeAdditional |-> TRUE]

\* new Ajv({ allErrors: true, strict: true }): the options that modify the
\* validated data keep their default, off
AjvOptions ==
  [allErrors |-> TRUE, strict |-> TRUE,
   useDefaults |-> FALSE, coerceTypes |-> FALSE, removeAdditional |-> FALSE]

\* removeAdditional: fields the schema does not declare are deleted
RECURSIVE RemoveAdditional(_, _)
RemoveAdditional(schema, data) ==
  IF data.t # "object" THEN data
  ELSE LET declared(f) == \E i \in 1..Len(schema.properties) : schema.properties[i].k = f.k
           sub(key) == schema.properties[CHOOSE i \in 1..Len(schema.properties) :
                                           schema.properties[i].k = key].schema
           kept == SelectSeq(data.fields, declared)
       IN Obj([i \in 1..Len(kept) |->
                 [k |-> kept[i].k, v |-> RemoveAdditional(sub(kept[i].k), kept[i].v)]])

\* the data object once validate(data) has run on it: the schema has no
\* defaults and no scalar types, so only removeAdditional could alter it
AfterValidate(data) ==
  IF AjvOptions.removeAdditional THEN RemoveAdditional(SchemaDoc, data) ELSE data

\* validate(data): the boolean result
validate(data) == AjvErrors(SchemaDoc, data, <<>>) = <<>>

\* validate.errors after validate(data); the property is declared
\* errors?: Array | null, so an invalid verdict may leave it without a list
ErrorsAfter(data) ==
  IF validate(data) THEN {NullV}
  ELSE {Arr(AjvErrors(SchemaDoc, data, <<>>)), Arr(<<>>), NullV}

\* JSON.stringify(schemaJson, null, 2): the schema as text, field by field
RECURSIVE StringifyKeys(_)
StringifyKeys(keys) ==
  IF keys = <<>> THEN <<>>
  ELSE <<"\"">> \o Head(keys) \o <<"\"">>
       \o (IF Len(keys) > 1 THEN <<",">> ELSE <<>>) \o StringifyKeys(Tail(keys))

RECURSIVE StringifySchema(_)
RECURSIVE StringifyProps(_)

StringifyProps(props) ==
  IF props = <<>> THEN <<>>
  ELSE <<"\"">> \o Head(props).k \o <<"\"", ":">> \o StringifySchema(Head(props).schema)
       \o (IF Len(props) > 1 THEN <<",">> ELSE <<>>) \o StringifyProps(Tail(props))

StringifySchema(schema) ==
  <<"{", "\"type\"", ":", "\"", schema.type, "\"", ",",
    "\"required\"", ":", "[">> \o StringifyKeys(schema.required) \o <<"]", ",",
    "\"properties\"", ":", "{">> \o StringifyProps(schema.properties) \o <<"}", "}">>

schemaString == StringifySchema(SchemaDoc)


(***************************************************************************)
(* The chat endpoint variants                                              *)
(***************************************************************************)
\* fn_azure     api/chat/index.js (key-authenticated Azure deployment)
\* fn_openai    Azure Functions handler with a fixed model name
\* astro_text   Astro route reading the body as text
\* next_fetch   route calling the provider with fetch
\* astro_json   route reading the body with request.json()
\* astro_token  Astro route with a token provider (DefaultAzureCredential)
\* astro_static route with request.json() and a schema-free system message
\* pages_chat   src/pages/api/chat.ts
Variants ==
  {"fn_azure", "fn_openai", "astro_text", "next_fetch",
   "astro_json", "astro_token", "astro_static", "pages_chat"}

ConfigItems == {"endpoint", "deployment", "apiVersion", "credential"}

\* the configuration items a variant tests before it goes on
RequiredConfig(v) ==
  CASE v = "fn_azure"    -> {"endpoint", "deployment", "apiVersion", "credential"}
    [] v = "astro_token" -> {"endpoint", "deployment", "apiVersion"}
    [] v \in {"fn_openai", "astro_text", "next_fetch", "pages_chat"} -> {"credential"}
    [] OTHER             -> {}

\* how the request body reaches the handler
BodyMode(v) ==
  CASE v \in {"fn_azure", "fn_openai"}      -> "host"
    [] v \in {"astro_json", "astro_static"} -> "json"
    [] OTHER                                -> "text"

ChecksTypeof(v) == v # "pages_chat"

\* the gate is written  !isValid && validate.errors
ErrorsGuard(v) == v \in {"fn_azure", "fn_openai", "next_fetch", "astro_token"}

EmbedsSchema(v) == v \notin {"astro_static", "pages_chat"}

ModelName(v) ==
  CASE v \in {"fn_azure", "astro_token"} -> "deploymentName"
    [] v = "next_fetch"                   -> "gpt-4o"
    [] v = "pages_chat"                   -> "gpt-4o-mini"
    [] OTHER                              -> "gpt-3.5-turbo"

systemContext(v) ==
  IF EmbedsSchema(v)
  THEN <<"You are Consultologist ... conforms to the following structure:">>
       \o schemaString \o <<"REQUIREMENTS: ... Return only the JSON object, nothing else">>
  ELSE IF v = "astro_static"
  THEN <<"You are Consultologist ... Return only the JSON object.">>
  ELSE <<"You are Consultologist ... Example structure: ...">>

\* a try block that ends before the template is rendered
TrySites_BeforeRender(v) ==
  {"destructure", "bodyjson", "create", "empty", "decode", "validation"}

\* statements covered by the handler's try block
TrySites(v) ==
  {"destructure", "bodyjson", "create", "empty", "decode", "validation", "render"}

(***************************************************************************)
(* Messages and response bodies                                            *)
(***************************************************************************)
NoRes == [status |-> 0]

ErrorBody(title, text, details) ==
  [kind |-> "error", title |-> title, text |-> text, details |-> details]

ConfigBody(v) ==
  ErrorBody("Configuration Error",
            CASE v = "fn_azure" ->
                   <<"Azure OpenAI configuration is incomplete. Please ensure ",
                     "AZURE_OPENAI_ENDPOINT", "AZURE_OPENAI_DEPLOYMENT_NAME",
                     "AZURE_OPENAI_API_VERSION", "OPENAI_API_KEY", " are set.">>
              [] v = "astro_token" ->
                   <<"Azure OpenAI configuration is incomplete. Please ensure ",
                     "AZURE_OPENAI_ENDPOINT", "AZURE_OPENAI_DEPLOYMENT_NAME",
                     "AZURE_OPENAI_API_VERSION", " are set.">>
              [] OTHER -> <<"OpenAI API key is not configured.">>,
            <<>>)

EmptyBodyBody ==
  ErrorBody("Invalid Request", <<"Request body is empty. Please provide consultation details.">>, <<>>)

InvalidJsonBody(v) ==
  ErrorBody("Invalid JSON",
            IF v = "pages_chat"
            THEN <<"Request body contains invalid JSON format.">>
            ELSE <<"Request body contains malformed JSON. Please check your request format.">>,
            <<>>)

InvalidPromptBody(v) ==
  CASE BodyMode(v) = "json" -> ErrorBody("error", <<"Invalid prompt provided">>, <<>>)
    [] v = "pages_chat"     -> ErrorBody("Missing Prompt", <<"No consultation details provided.">>, <<>>)
    [] OTHER                -> ErrorBody("Invalid Input", <<"Please provide valid consultation details.">>, <<>>)

InvalidPromptType(v) == IF BodyMode(v) = "json" THEN "application/json" ELSE "text/html"

\* the catch block: one page for every caught error, with error.message
CatchBody(v, message) ==
  IF v = "pages_chat"
  THEN ErrorBody("Error",
                 <<"Sorry, there was an error processing your request. Please check your API key configuration and try again.">>,
                 message)
  ELSE ErrorBody("Error Processing Request",
                 <<"Sorry, there was an error processing your consultation request. Please try again.">>,
                 message)

\* an empty generation reported with the client's connection message
NoResponseMsg_AsTransport(v) == <<"Connection error.">>

NoResponseMsg(v) ==
  IF v \in {"fn_azure", "astro_token"}
  THEN <<"No response from Azure OpenAI">>
  ELSE <<"No response from OpenAI">>

DecodeMsg(v) ==
  IF v = "pages_chat" THEN <<"AI response is not valid JSON">>
  ELSE <<"Invalid JSON response from AI">>

DestructureMsg == <<"Cannot destructure property 'prompt' as it is null.">>

BodyJsonMsg == <<"Unexpected end of JSON input">>

TransportMsg == <<"Connection error.">>

RenderMsg == <<"render error">>

\* the message of the error thrown for a provider-reported failure: the
\* fetch variant logs the provider's text and throws its own message, the
\* client library's error message is the status followed by the provider's text
ProviderMsg(v, status, text) ==
  IF v = "next_fetch" THEN <<"OpenAI API request failed: ", status>>
  ELSE <<status, " ">> \o text

\* Array.prototype.join
RECURSIVE Join(_, _)
Join(parts, sep) ==
  IF parts = <<>> THEN <<>>
  ELSE IF Len(parts) = 1 THEN parts[1]
  ELSE parts[1] \o sep \o Join(Tail(parts), sep)

\* `${error.instancePath || 'root'}: ${error.message}`
ErrorEntry(error) ==
  (IF error.instancePath # <<>> THEN error.instancePath ELSE <<"root">>)
  \o <<": ">> \o error.message

\* a summary that reports the first violation only
validationErrors_FirstOnly(errors) ==
  IF errors.t = "array" /\ errors.items # <<>>
  THEN ErrorEntry(errors.items[1])
  ELSE <<"Unknown validation error">>

\* validate.errors?.map(...).join(', ') || 'Unknown validation error'
validationErrors(errors) ==
  LET joined == IF errors.t = "array"
                THEN Join([i \in 1..Len(errors.items) |-> ErrorEntry(errors.items[i])], <<", ">>)
                ELSE <<>>
  IN IF joined # <<>> THEN joined ELSE <<"Unknown validation error">>

\* JSON.stringify(validate.errors)
StringifyErrors(errors) ==
  IF errors.t # "array" THEN <<"null">>
  ELSE <<"[">>
       \o Join([i \in 1..Len(errors.items) |->
                  <<"{instancePath:">> \o errors.items[i].instancePath
                  \o <<",keyword:", errors.items[i].keyword>>
                  \o <<",message:">> \o errors.items[i].message \o <<"}">>], <<",">>)
       \o <<"]">>

ValidationMsg(v, errors) ==
  IF v = "pages_chat"
  THEN <<"Schema validation failed: ">> \o StringifyErrors(errors)
  ELSE <<"AI response does not match expected format: ">> \o validationErrors(errors)


(***************************************************************************)
(* Inputs: request bodies, backend replies                                 *)
(***************************************************************************)
PromptBody(value) == <<P("{"), S(K_prompt), P(":"), value, P("}")>>

T_valid ==
  <<P("{"), S(K_front_matter), P(":"), P("{"),
    S(K_patient), P(":"), P("{"), P("}"), P(","),
    S(K_receptors), P(":"), P("{"), P("}"), P("}"), P("}")>>

\* a record whose front_matter lacks the receptors object
T_no_receptors ==
  <<P("{"), S(K_front_matter), P(":"), P("{"),
    S(K_patient), P(":"), P("{"), P("}"), P("}"), P("}")>>

Bodies ==
  { <<>>,                                  \* no body
    <<WS>>,                                \* whitespace only
    <<P("{"), W("prompt")>>,               \* malformed JSON
    <<L("null")>>,                         \* JSON null
    <<P("{"), P("}")>>,                    \* no prompt field
    PromptBody(S(<<>>)),                   \* empty prompt
    PromptBody(S(<<" ", "\t">>)),          \* whitespace-only prompt
    PromptBody(N(5)),                      \* prompt is a number
    PromptBody(S(<<"55F,", " ", "Stage IIA">>)),
    PromptBody(S(<<" ", "ER 8/8", " ">>)) }

\* bodies with a usable prompt
GoodPromptBodies ==
  {PromptBody(S(<<"55F,", " ", "Stage IIA">>)), PromptBody(S(<<" ", "ER 8/8", " ">>))}

GeneratedTexts ==
  { <<W("I"), WS, W("cannot"), WS, W("help")>>,
    <<P("{"), W("not"), WS, W("json")>>,
    T_valid \o <<W("x")>>,                 \* trailing content
    <<P("["), N(1), P("]")>>,
    <<L("null")>>,
    <<N(1)>>,
    T_valid,
    <<WS>> \o T_valid \o <<WS>>,
    T_no_receptors,
    <<P("{"), S(K_front_matter), P(":"), P("{"), P("}"), P("}")>>,
    <<P("{"), P("}")>> }

Completions ==
  {<<>>, <<[content |-> NullV]>>, <<[content |-> Str(<<>>)]>>}
  \cup {<<[content |-> Str(t)]>> : t \in GeneratedTexts}

\* the error text of the provider's reply
RateLimitText == <<"Rate limit reached for requests">>

FailureReplies ==
  {[kind |-> "transport"],
   [kind |-> "provider", status |-> "429", text |-> RateLimitText]}

\* the configuration the client needs to reach the backend
NeededConfig(v) ==
  IF v \in {"fn_azure", "astro_token"} THEN ConfigItems ELSE {"credential"}

\* what awaiting the backend call can produce
BackendReplies(v, e) ==
  IF NeededConfig(v) \subseteq e
  THEN FailureReplies \cup {[kind |-> "completion", choices |-> c] : c \in Completions}
  ELSE FailureReplies

RenderReplies == {"ok", "throw"}

\* req.body as the Functions host hands it over: nothing for an empty body,
\* the parsed value for JSON, the text itself otherwise
HostBody(toks) ==
  IF Trim(toks) = <<>> THEN Undef
  ELSE IF JSONparse(toks).ok THEN JSONparse(toks).v
  ELSE Str(<<"unparsed body">>)

\* new Liquid(): no option is given, undefined variables are not an error
LiquidOptions == [strictVariables |-> FALSE, strictFilters |-> FALSE]

K_extras == <<"extras">>

\* the values the consultation template refers to: the two required parts of
\* front_matter and the optional extras section
TemplateRefs ==
  {<<K_front_matter, K_patient>>, <<K_front_matter, K_receptors>>, <<K_extras>>}

\* the value of a dotted reference in the render context
RECURSIVE Resolve(_, _)
Resolve(x, path) ==
  IF path = <<>> THEN x ELSE Resolve(GetProp(x, Head(path)), Tail(path))

Unresolved(data) == {path \in TemplateRefs : Resolve(data, path) = Undef}

\* engine.parseAndRender(templateContent, data): the page, with nothing in
\* the place of a reference that does not resolve
Render(data) ==
  [template |-> "consult_response", data |-> data, blanks |-> Unresolved(data)]

(***************************************************************************)
(* The handler, one operator per segment between awaits                    *)
(***************************************************************************)
NewRequest(body) ==
  [pc |-> "invoked", body |-> body, prompt |-> Undef, sent |-> <<>>,
   completion |-> Undef,
   responseContent |-> Undef, consultationData |-> Undef, isValid |-> Undef,
   errors |-> Undef, validated |-> <<>>, rendered |-> <<>>,
   trace |-> <<"Received">>, res |-> NoRes, escaped |-> FALSE,
   outcome |-> "none"]

Idle == [NewRequest(<<>>) EXCEPT !.pc = "idle", !.trace = <<>>]

FailState(kind) ==
  CASE kind \in {"TransportError", "ProviderError", "EmptyGenerationError"} -> <<"GenerationFailed">>
    [] kind = "DecodeError"          -> <<"DecodeFailed">>
    [] kind = "SchemaViolationError" -> <<"ValidationFailed">>
    [] kind = "RenderError"          -> <<"RenderFailed">>
    [] OTHER                         -> <<>>

\* context.res = {...}; return   /   return new Response(...)
Respond(r, status, ctype, body, kind) ==
  [r EXCEPT !.pc = "done",
            !.res = [status |-> status, ctype |-> ctype, body |-> body],
            !.outcome = kind,
            !.trace = @ \o FailState(kind)]

\* a catch block that runs the pipeline again after a failed generation
Throw_Retry(v, r, site, message, kind) ==
  IF site \in {"create", "empty", "decode", "validation"} /\ Len(r.sent) < 2
  THEN [r EXCEPT !.pc = "invoked"]
  ELSE Respond(r, 500, "text/html", CatchBody(v, message), kind)

\* throw at a site: the catch block answers 500 when the try covers the site
Throw(v, r, site, message, kind) ==
  IF site \in TrySites(v)
  THEN Respond(r, 500, "text/html", CatchBody(v, message), kind)
  ELSE [r EXCEPT !.pc = "done", !.escaped = TRUE, !.outcome = kind]

PromptRejected(v, prompt) ==
  \/ ~Truthy(prompt)
  \/ ChecksTypeof(v) /\ TypeOf(prompt) # "string"

\* a call whose user message is the prompt without its leading blank
CreateArgs_Trimmed(v, prompt) ==
  [model  |-> ModelName(v),
   system |-> systemContext(v),
   user   |-> IF prompt.t = "string" /\ prompt.s # <<>> /\ prompt.s[1] \in {" ", "\t"}
              THEN Str(Tail(prompt.s)) ELSE prompt]

\* the argument of chat.completions.create: model and the two messages
CreateArgs(v, prompt) ==
  [model  |-> ModelName(v),
   system |-> systemContext(v),
   user   |-> prompt]

\* const { prompt } = data; the prompt check; compose and issue the call
PromptStage(v, r, data) ==
  IF data.t \in {"null", "undefined"}
  THEN Throw(v, r, "destructure", DestructureMsg, "UnclassifiedError")
  ELSE LET prompt == GetProp(data, K_prompt) IN
       IF PromptRejected(v, prompt)
       THEN Respond(r, 400, InvalidPromptType(v), InvalidPromptBody(v), "InputError")
       ELSE [r EXCEPT !.prompt = prompt,
                      !.trace = Append(@, "Composed"),
                      !.sent = Append(@, CreateArgs(v, prompt)),
                      !.pc = "await_backend"]

\* from the invocation to the first await
StartHandler(v, e, r) ==
  IF RequiredConfig(v) \ e # {}
  THEN Respond(r, 500, "text/html", ConfigBody(v), "ConfigurationError")
  ELSE IF BodyMode(v) = "host"
  THEN LET rawBody == HostBody(r.body) IN
       IF ~Truthy(rawBody)
       THEN Respond(r, 400, "text/html", EmptyBodyBody, "InputError")
       ELSE PromptStage(v, r, rawBody)
  ELSE [r EXCEPT !.pc = "await_body"]

\* after await request.text() / await request.json()
BodyRead(v, r) ==
  IF BodyMode(v) = "json"
  THEN IF JSONparse(r.body).ok
       THEN PromptStage(v, r, JSONparse(r.body).v)
       ELSE Throw(v, r, "bodyjson", BodyJsonMsg, "UnclassifiedError")
  ELSE IF r.body = <<>> \/ Trim(r.body) = <<>>
  THEN Respond(r, 400, "text/html", EmptyBodyBody, "InputError")
  ELSE IF ~JSONparse(r.body).ok
  THEN Respond(r, 400, "text/html", InvalidJsonBody(v), "InputError")
  ELSE PromptStage(v, r, JSONparse(r.body).v)

\* the validation gate: validate(data), then the test on its verdict
GateRejects(v, isValid, errors) ==
  IF ErrorsGuard(v) THEN ~isValid /\ Truthy(errors) ELSE ~isValid

ValidationGate(v, r, errors) ==
  LET data == r.consultationData
      r1   == [r EXCEPT !.isValid = Bool(validate(data)),
                        !.errors = errors,
                        !.validated = Append(@, data),
                        !.consultationData = AfterValidate(data)]
  IN IF GateRejects(v, validate(data), errors)
     THEN Throw(v, r1, "validation", ValidationMsg(v, errors), "SchemaViolationError")
     ELSE [r1 EXCEPT !.trace = Append(@, "Validated"),
                     !.rendered = Append(@, r1.consultationData),
                     !.pc = "await_render"]

\* JSON.parse(responseContent) in its own try, then the gate
DecodeStage(v, r, errors) ==
  LET parsed == JSONparse(r.responseContent.s) IN
  IF ~parsed.ok
  THEN Throw(v, r, "decode", DecodeMsg(v), "DecodeError")
  ELSE ValidationGate(v, [r EXCEPT !.consultationData = parsed.v,
                                   !.trace = Append(@, "Decoded")], errors)

\* completion.choices[0]?.message?.content
FirstContent(choices) == IF choices = <<>> THEN Undef ELSE choices[1].content

\* from the backend's reply to the next await
BackendReply(v, r, reply, errors) ==
  CASE reply.kind = "transport" -> Throw(v, r, "create", TransportMsg, "TransportError")
    [] reply.kind = "provider"  ->
         Throw(v, r, "create", ProviderMsg(v, reply.status, reply.text), "ProviderError")
    [] OTHER ->
         LET content == FirstContent(reply.choices)
             r1      == [r EXCEPT !.completion = [choices |-> reply.choices]]
         IN
         IF ~Truthy(content)
         THEN Throw(v, r1, "empty", NoResponseMsg(v), "EmptyGenerationError")
         ELSE DecodeStage(v, [r1 EXCEPT !.responseContent = content,
                                        !.trace = Append(@, "Generated")], errors)

\* after await engine.parseAndRender(...)
RenderReply(v, r, reply) ==
  IF reply = "ok" /\ ~(LiquidOptions.strictVariables /\ Unresolved(r.consultationData) # {})
  THEN Respond([r EXCEPT !.trace = Append(@, "Rendered")], 200, "text/html",
               [kind |-> "html", html |-> Render(r.consultationData)], "Rendered")
  ELSE Throw(v, r, "render", RenderMsg, "RenderError")

(***************************************************************************)
(* State machine                                                           *)
(***************************************************************************)
\* a read of validate.errors that sees what the field held before the call
ErrorsRead_Stale(before, written) == before

\* validate.errors as the handler reads it: the read follows the call to
\* validate in the same synchronous stretch, so it sees what that call wrote
ErrorsRead(before, written) == written

(***************************************************************************)
(* The contact handler (api/contact/index.js): pure functions              *)
(***************************************************************************)
REQUIRED_FIELDS ==
  << <<"name">>, <<"email">>, <<"specialty">>, <<"organization">>, <<"comments">> >>

Field(name, value) == [k |-> <<name>>, v |-> value]

BlankPieces == {" ", "\t", "\n"}

\* String.prototype.trim on a string given piece by piece
RECURSIVE TrimText(_)
TrimText(s) ==
  IF s = <<>> THEN s
  ELSE IF Head(s) \in BlankPieces THEN TrimText(Tail(s))
  ELSE IF s[Len(s)] \in BlankPieces THEN TrimText(SubSeq(s, 1, Len(s) - 1))
  ELSE s

\* value.toString() for a value that is neither null nor undefined
RECURSIVE ToStringJS(_)
ToStringJS(x) ==
  CASE x.t = "string"  -> x.s
    [] x.t = "number"  -> <<ToString(x.n)>>
    [] x.t = "boolean" -> IF x.b THEN <<"true">> ELSE <<"false">>
    [] x.t = "array"   ->
         Join([i \in 1..Len(x.items) |->
                 IF x.items[i].t \in {"null", "undefined"} THEN <<>>
                 ELSE ToStringJS(x.items[i])], <<",">>)
    [] OTHER           -> <<"[object Object]">>

\* the numeric strings of the inputs and their values
NumericText(piece) ==
  CASE piece = "0"   -> [finite |-> TRUE, n |-> 0]
    [] piece = "10"  -> [finite |-> TRUE, n |-> 10]
    [] piece = "25"  -> [finite |-> TRUE, n |-> 25]
    [] OTHER         -> [finite |-> FALSE, n |-> 0]

\* Number(value) together with Number.isFinite of the result
ToNumber(x) ==
  CASE x.t = "undefined" -> [finite |-> FALSE, n |-> 0]
    [] x.t = "null"      -> [finite |-> TRUE, n |-> 0]
    [] x.t = "boolean"   -> [finite |-> TRUE, n |-> IF x.b THEN 1 ELSE 0]
    [] x.t = "number"    -> [finite |-> TRUE, n |-> x.n]
    [] x.t = "string"    ->
         LET s == TrimText(x.s) IN
         IF s = <<>> THEN [finite |-> TRUE, n |-> 0]
         ELSE IF Len(s) = 1 THEN NumericText(s[1])
         ELSE [finite |-> FALSE, n |-> 0]
    [] x.t = "array"     ->
         LET s == TrimText(ToStringJS(x)) IN
         IF s = <<>> THEN [finite |-> TRUE, n |-> 0]
         ELSE IF Len(s) = 1 THEN NumericText(s[1])
         ELSE [finite |-> FALSE, n |-> 0]
    [] OTHER             -> [finite |-> FALSE, n |-> 0]

normalizeNumber(value) ==
  IF ToNumber(value).finite THEN Num(ToNumber(value).n) ELSE NullV

parseRequestBody(body) ==
  IF ~Truthy(body) THEN Obj(<<>>)
  ELSE IF TypeOf(body) = "string"
  THEN (IF JSONparse(body.s).ok THEN JSONparse(body.s).v ELSE Obj(<<>>))
  ELSE body

\* the callback of itemsSource.map: the cleaned item, or null
SanitizeItem(item) ==
  IF ~Truthy(item) \/ TypeOf(item) # "object" THEN NullV
  ELSE LET name            == GetProp(item, <<"planName">>)
           planName        == IF TypeOf(name) = "string" THEN name ELSE NullV
           adjustedMonthly == normalizeNumber(GetProp(item, <<"adjustedMonthly">>))
       IN IF ~Truthy(planName) \/ adjustedMonthly = NullV THEN NullV
          ELSE [planName        |-> planName,
                percentage      |-> normalizeNumber(GetProp(item, <<"percentage">>)),
                fte             |-> normalizeNumber(GetProp(item, <<"fte">>)),
                basePrice       |-> normalizeNumber(GetProp(item, <<"basePrice">>)),
                adjustedMonthly |-> adjustedMonthly]

\* items.reduce((sum, item) => sum + (item.adjustedMonthly ?? 0), 0)
RECURSIVE SumMonthly(_)
SumMonthly(items) ==
  IF items = <<>> THEN 0
  ELSE SumMonthly(SubSeq(items, 1, Len(items) - 1)) + items[Len(items)].adjustedMonthly.n

sanitizeContract(rawContract) ==
  IF ~Truthy(rawContract) THEN NullV
  ELSE IF TypeOf(rawContract) = "string" /\ ~JSONparse(rawContract.s).ok THEN NullV
  ELSE LET contract == IF TypeOf(rawContract) = "string"
                       THEN JSONparse(rawContract.s).v ELSE rawContract
       IN IF ~Truthy(contract) \/ TypeOf(contract) # "object" THEN NullV
          ELSE LET source      == GetProp(contract, <<"items">>)
                   itemsSource == IF source.t = "array" THEN source.items ELSE <<>>
                   mapped      == [i \in 1..Len(itemsSource) |-> SanitizeItem(itemsSource[i])]
                   kept(item)  == item # NullV
                   items       == SelectSeq(mapped, kept)
                   total       == normalizeNumber(GetProp(contract, <<"totalMonthly">>))
               IN IF items = <<>> THEN NullV
                  ELSE [items |-> items,
                        totalMonthly |-> IF total # NullV THEN total
                                         ELSE Num(SumMonthly(items))]

\* REQUIRED_FIELDS.filter: !value || !value.toString().trim()
IsMissing(value) == ~Truthy(value) \/ TrimText(ToStringJS(value)) = <<>>

missingFields(payload) ==
  LET missing(field) == IsMissing(GetProp(payload, field))
  IN SelectSeq(REQUIRED_FIELDS, missing)

\* REQUIRED_FIELDS.reduce: every field as trimmed text
cleanedPayload(payload) ==
  [i \in 1..Len(REQUIRED_FIELDS) |->
     [k |-> REQUIRED_FIELDS[i], v |-> TrimText(ToStringJS(GetProp(payload, REQUIRED_FIELDS[i])))]]

MissingFieldsMsg(missing) == <<"Missing fields: ">> \o Join(missing, <<", ">>)

(***************************************************************************)
(* The contact handler: inputs, responses and the request record           *)
(***************************************************************************)
\* ACS_CONNECTION_STRING, ACS_SENDER_ADDRESS, ACS_CONTACT_RECIPIENT
MailConfigItems == {"connection", "sender", "recipient"}

\* process.env.ACS_CONTACT_RECIPIENT || senderAddress
recipientAddress(e) ==
  IF "recipient" \in e THEN <<"recipient">>
  ELSE IF "sender" \in e THEN <<"sender">>
  ELSE <<>>

MailConfigured(e) == "connection" \in e /\ "sender" \in e /\ recipientAddress(e) # <<>>

PlanItem(name, monthly) ==
  Obj(<<Field("planName", name), Field("percentage", Num(50)),
        Field("fte", Str(<<"1">>)), Field("basePrice", Num(20)),
        Field("adjustedMonthly", monthly)>>)

ItemA == PlanItem(Str(<<"Clinic">>), Num(10))
ItemB == PlanItem(Str(<<"Hospital">>), Str(<<"25">>))
ItemNoName == PlanItem(Num(7), Num(10))
ItemNoPrice == PlanItem(Str(<<"Clinic">>), Str(<<"n/a">>))

Contract(items, total) ==
  Obj(<<Field("items", Arr(items)), Field("totalMonthly", total)>>)

\* payload.contract as callers can send it
RawContracts ==
  { Undef,
    NullV,
    Num(3),
    Str(<<P("{"), W("not"), WS, W("json")>>),
    Str(<<P("{"), S(<<"items">>), P(":"), P("["), P("]"), P("}")>>),
    Str(<<P("{"), S(<<"items">>), P(":"), P("["),
          P("{"), S(<<"planName">>), P(":"), S(<<"Clinic">>), P(","),
                  S(<<"adjustedMonthly">>), P(":"), N(10), P("}"),
          P("]"), P("}")>>),
    Arr(<<ItemA>>),
    Obj(<<Field("items", Str(<<"none">>))>>),
    Contract(<<ItemNoName, ItemNoPrice, NullV>>, Num(10)),
    Contract(<<ItemA, ItemB>>, Num(40)),
    Contract(<<ItemB, ItemNoName, ItemA>>, Undef),
    Contract(<<ItemA, ItemB>>, Str(<<"n/a">>)),
    Contract(<<ItemA, ItemB>>, NullV),
    Contract(<<ItemA>>, Str(<<"25">>)) }

ContactFields(name, email, comments) ==
  <<Field("name", name), Field("email", email),
    Field("specialty", Str(<<"Oncology">>)),
    Field("organization", Str(<<" ", "Clinic", " ">>)),
    Field("comments", comments)>>

GoodContact == ContactFields(Str(<<"Ada">>), Str(<<"ada@example.org">>), Str(<<"Hello">>))

\* req.body as the host hands it over: absent, text, or an object
MailBodies ==
  { Undef,
    Str(<<P("{"), W("not"), WS, W("json")>>),
    Str(<<L("null")>>),
    Str(<<P("{"), S(<<"name">>), P(":"), S(<<"Ada">>), P("}")>>),
    Obj(ContactFields(Str(<<"Ada">>), Str(<<"ada@example.org">>), Str(<<" ", "\n">>))),
    Obj(ContactFields(Undef, Num(0), Str(<<"Hello">>))),
    Obj(ContactFields(Num(7), Bool(TRUE), Str(<<"Hello">>))) }
  \cup { Obj(GoodContact \o <<Field("contract", c)>>) : c \in RawContracts }

MailNotConfiguredMsg ==
  <<"Azure Communication Services is not configured. ",
    "Please verify your connection string and sender settings.">>

RelayFailedMsg ==
  <<"We were unable to relay your request. ",
    "Please verify your ACS credentials and try again.">>

MailError(status, text) == [status |-> status, error |-> text]

MailSent(id) == [status |-> 200, operationId |-> id]

\* what pollUntilDone settles with: a rejection, or a result
PollOutcomes ==
  { [rejected |-> TRUE,  result |-> Undef],
    [rejected |-> FALSE, result |-> Undef],
    [rejected |-> FALSE, result |-> Obj(<<Field("status", Str(<<"Succeeded">>))>>)],
    [rejected |-> FALSE, result |-> Obj(<<Field("id", Str(<<>>))>>)],
    [rejected |-> FALSE, result |-> Obj(<<Field("id", Str(<<"op-1">>)),
                                          Field("status", Str(<<"Succeeded">>))>>)] }

HasOperationId_Always(result) == TRUE

\* the test of `if (!result?.id)`: the result exists and carries a truthy id
HasOperationId(result) ==
  /\ result.t \notin {"undefined", "null"}
  /\ Truthy(GetProp(result, <<"id">>))

\* the handler's locals; steps lists the awaits that settled
MailIdle ==
  [pc |-> "idle", body |-> Undef, payload |-> Undef, missing |-> <<>>,
   cleaned |-> <<>>, contract |-> Undef, contractDetails |-> Undef,
   sends |-> <<>>, steps |-> <<>>, result |-> Undef,
   res |-> NoRes, escaped |-> FALSE]


VARIABLES
  variant,          \* which endpoint is deployed
  env,              \* configuration items present in the environment
  validate_errors,  \* validate.errors, module scope
  req,              \* the request in flight and the handler's locals
  twin,             \* the same request in the token-provider endpoint
  other,            \* a second request in flight in the same process
  mail              \* the contact handler's request in flight

vars == <<variant, env, validate_errors, req, twin, other, mail>>

Init ==
  /\ variant \in Variants
  /\ env \in SUBSET ConfigItems
  /\ validate_errors = NullV
  /\ req = Idle
  /\ twin = Idle
  /\ other = Idle
  /\ mail = MailIdle

\* the host invokes the handler with a request
Receive ==
  /\ req.pc \in {"idle", "done"}
  /\ \E body \in Bodies : req' = NewRequest(body)
  /\ UNCHANGED <<variant, env, validate_errors, twin, other, mail>>

Start ==
  /\ req.pc = "invoked"
  /\ req' = StartHandler(variant, env, req)
  /\ UNCHANGED <<variant, env, validate_errors, twin, other, mail>>

ReadBody ==
  /\ req.pc = "await_body"
  /\ req' = BodyRead(variant, req)
  /\ UNCHANGED <<variant, env, validate_errors, twin, other, mail>>

Backend ==
  /\ req.pc = "await_backend"
  /\ \E reply \in BackendReplies(variant, env) :
       LET text == IF reply.kind = "completion" /\ Truthy(FirstContent(reply.choices))
                   THEN JSONparse(FirstContent(reply.choices).s)
                   ELSE [ok |-> FALSE, v |-> Undef]
       IN IF text.ok
          THEN \E errors \in ErrorsAfter(text.v) :
                 /\ req' = BackendReply(variant, req, reply,
                                        ErrorsRead(validate_errors, errors))
                 /\ validate_errors' = errors
          ELSE /\ req' = BackendReply(variant, req, reply, Undef)
               /\ UNCHANGED validate_errors
  /\ UNCHANGED <<variant, env, twin, other, mail>>

RenderDone ==
  /\ req.pc = "await_render"
  /\ \E reply \in RenderReplies : req' = RenderReply(variant, req, reply)
  /\ UNCHANGED <<variant, env, validate_errors, twin, other, mail>>

Next == Receive \/ Start \/ ReadBody \/ Backend \/ RenderDone

Spec == Init /\ [][Next]_vars

\* The runtime resumes a handler whose awaited local work is ready: reading
\* the received body and rendering settle.  The reply to the backend call
\* comes from outside, and the call is made with no timeout and no abort
\* signal, so nothing obliges it to settle.
SpecFair ==
  /\ Spec
  /\ WF_vars(ReadBody)
  /\ WF_vars(RenderDone)

(***************************************************************************)
(* The key-authenticated handler (req) and the token-provider endpoint     *)
(* (twin), given the same body, configuration and backend outcome          *)
(***************************************************************************)
KeyVariant == "fn_azure"

TokenVariant == "astro_token"

InitPair ==
  /\ variant = KeyVariant
  /\ env = ConfigItems
  /\ validate_errors = NullV
  /\ req = Idle
  /\ twin = Idle
  /\ other = Idle
  /\ mail = MailIdle

PairSettled == {req.pc, twin.pc} \subseteq {"idle", "done"}

PairReceive ==
  /\ PairSettled
  /\ \E body \in Bodies : req' = NewRequest(body) /\ twin' = NewRequest(body)
  /\ UNCHANGED <<variant, env, validate_errors, other, mail>>

PairStart ==
  /\ req.pc = "invoked" /\ twin.pc = "invoked"
  /\ req' = StartHandler(KeyVariant, env, req)
  /\ twin' = StartHandler(TokenVariant, env, twin)
  /\ UNCHANGED <<variant, env, validate_errors, other, mail>>

\* request.text() settles in the token-provider endpoint
PairReadBody ==
  /\ twin.pc = "await_body"
  /\ twin' = BodyRead(TokenVariant, twin)
  /\ UNCHANGED <<variant, env, validate_errors, req, other, mail>>

\* the backend gives both the same outcome
PairBackend ==
  /\ {req.pc, twin.pc} \subseteq {"await_backend", "done"}
  /\ "await_backend" \in {req.pc, twin.pc}
  /\ \E reply \in BackendReplies(KeyVariant, env) :
       LET text == IF reply.kind = "completion" /\ Truthy(FirstContent(reply.choices))
                   THEN JSONparse(FirstContent(reply.choices).s)
                   ELSE [ok |-> FALSE, v |-> Undef]
       IN \E errors \in (IF text.ok THEN ErrorsAfter(text.v) ELSE {Undef}) :
            /\ req' = IF req.pc = "await_backend"
                      THEN BackendReply(KeyVariant, req, reply,
                                        ErrorsRead(validate_errors, errors))
                      ELSE req
            /\ twin' = IF twin.pc = "await_backend"
                       THEN BackendReply(TokenVariant, twin, reply,
                                         ErrorsRead(validate_errors, errors))
                       ELSE twin
            /\ validate_errors' = IF text.ok THEN errors ELSE validate_errors
  /\ UNCHANGED <<variant, env, other, mail>>

\* rendering gives both the same outcome
PairRender ==
  /\ {req.pc, twin.pc} \subseteq {"await_render", "done"}
  /\ "await_render" \in {req.pc, twin.pc}
  /\ \E reply \in RenderReplies :
       /\ req' = IF req.pc = "await_render"
                 THEN RenderReply(KeyVariant, req, reply) ELSE req
       /\ twin' = IF twin.pc = "await_render"
                  THEN RenderReply(TokenVariant, twin, reply) ELSE twin
  /\ UNCHANGED <<variant, env, validate_errors, other, mail>>

NextPair == PairReceive \/ PairStart \/ PairReadBody \/ PairBackend \/ PairRender

SpecPair == InitPair /\ [][NextPair]_vars

(***************************************************************************)
(* Two requests in flight in one process: the handlers (req, other) share  *)
(* the validator and switch at their awaits only                           *)
(***************************************************************************)
Handlers == {1, 2}

\* both requests carry a usable prompt
ConcBodies == {PromptBody(S(<<"55F,", " ", "Stage IIA">>))}

Handler(h) == IF h = 1 THEN req ELSE other

\* the handler h goes on to the record r, the other one stays where it is
Resume(h, r) ==
  IF h = 1 THEN req' = r /\ UNCHANGED other ELSE other' = r /\ UNCHANGED req

InitConc ==
  /\ variant \in Variants
  /\ env = ConfigItems
  /\ validate_errors = NullV
  /\ req = Idle
  /\ twin = Idle
  /\ other = Idle
  /\ mail = MailIdle

ConcReceive ==
  \E h \in Handlers :
    /\ Handler(h).pc \in {"idle", "done"}
    /\ \E body \in ConcBodies : Resume(h, NewRequest(body))
    /\ UNCHANGED <<variant, env, validate_errors, twin, mail>>

ConcStart ==
  \E h \in Handlers :
    /\ Handler(h).pc = "invoked"
    /\ Resume(h, StartHandler(variant, env, Handler(h)))
    /\ UNCHANGED <<variant, env, validate_errors, twin, mail>>

ConcReadBody ==
  \E h \in Handlers :
    /\ Handler(h).pc = "await_body"
    /\ Resume(h, BodyRead(variant, Handler(h)))
    /\ UNCHANGED <<variant, env, validate_errors, twin, mail>>

\* the backend's reply resumes one handler, which runs to its next await:
\* it decodes, calls validate (which writes validate.errors) and reads
\* validate.errors
ConcBackend ==
  \E h \in Handlers :
    /\ Handler(h).pc = "await_backend"
    /\ \E reply \in BackendReplies(variant, env) :
         LET text == IF reply.kind = "completion" /\ Truthy(FirstContent(reply.choices))
                     THEN JSONparse(FirstContent(reply.choices).s)
                     ELSE [ok |-> FALSE, v |-> Undef]
         IN IF text.ok
            THEN \E errors \in ErrorsAfter(text.v) :
                   /\ Resume(h, BackendReply(variant, Handler(h), reply,
                                             ErrorsRead(validate_errors, errors)))
                   /\ validate_errors' = errors
            ELSE /\ Resume(h, BackendReply(variant, Handler(h), reply, Undef))
                 /\ UNCHANGED validate_errors
    /\ UNCHANGED <<variant, env, twin, mail>>

ConcRenderDone ==
  \E h \in Handlers :
    /\ Handler(h).pc = "await_render"
    /\ \E reply \in RenderReplies : Resume(h, RenderReply(variant, Handler(h), reply))
    /\ UNCHANGED <<variant, env, validate_errors, twin, mail>>

NextConc == ConcReceive \/ ConcStart \/ ConcReadBody \/ ConcBackend \/ ConcRenderDone

SpecConc == InitConc /\ [][NextConc]_vars

(***************************************************************************)
(* The contact handler: one request from arrival to response               *)
(***************************************************************************)
InitMail ==
  /\ variant = "fn_azure"
  /\ env \in SUBSET MailConfigItems
  /\ validate_errors = NullV
  /\ req = Idle
  /\ twin = Idle
  /\ other = Idle
  /\ mail = MailIdle

MailReceive ==
  /\ mail.pc = "idle"
  /\ \E body \in MailBodies : mail' = [MailIdle EXCEPT !.pc = "invoked", !.body = body]
  /\ UNCHANGED <<variant, env, validate_errors, req, twin, other>>

\* the synchronous stretch from the configuration test to the first await
MailStart ==
  /\ mail.pc = "invoked"
  /\ IF ~MailConfigured(env)
     THEN mail' = [mail EXCEPT !.pc = "done",
                               !.res = MailError(500, MailNotConfiguredMsg)]
     ELSE LET payload == parseRequestBody(mail.body) IN
          IF payload.t \in {"null", "undefined"}
          THEN \* payload[field] throws a TypeError ahead of the try block
               mail' = [mail EXCEPT !.pc = "done", !.payload = payload,
                                    !.escaped = TRUE]
          ELSE IF missingFields(payload) # <<>>
          THEN mail' = [mail EXCEPT !.pc = "done", !.payload = payload,
                                    !.missing = missingFields(payload),
                                    !.res = MailError(400, MissingFieldsMsg(missingFields(payload)))]
          ELSE LET r == [mail EXCEPT !.payload = payload,
                                     !.cleaned = cleanedPayload(payload),
                                     !.contract = GetProp(payload, <<"contract">>),
                                     !.contractDetails =
                                        sanitizeContract(GetProp(payload, <<"contract">>))]
               IN \E clientThrows \in BOOLEAN :
                    IF clientThrows
                    THEN mail' = [r EXCEPT !.pc = "done",
                                           !.steps = <<"client_threw">>,
                                           !.res = MailError(500, RelayFailedMsg)]
                    ELSE mail' = [r EXCEPT !.pc = "await_send",
                                           !.sends = Append(@,
                                              [senderAddress |-> <<"sender">>,
                                               to |-> recipientAddress(env),
                                               replyTo |-> FieldValue(r.cleaned, <<"email">>),
                                               fields |-> r.cleaned,
                                               contract |-> r.contractDetails])]
  /\ UNCHANGED <<variant, env, validate_errors, req, twin, other>>

\* await emailClient.beginSend(message)
MailSendSettled ==
  /\ mail.pc = "await_send"
  /\ \E rejected \in BOOLEAN :
       IF rejected
       THEN mail' = [mail EXCEPT !.pc = "done", !.steps = Append(@, "send_rejected"),
                                 !.res = MailError(500, RelayFailedMsg)]
       ELSE mail' = [mail EXCEPT !.pc = "await_poll", !.steps = Append(@, "send_accepted")]
  /\ UNCHANGED <<variant, env, validate_errors, req, twin, other>>

\* await poller.pollUntilDone(), the id test and the response
MailPollDone ==
  /\ mail.pc = "await_poll"
  /\ \E o \in PollOutcomes :
       IF o.rejected
       THEN mail' = [mail EXCEPT !.pc = "done", !.steps = Append(@, "poll_rejected"),
                                 !.res = MailError(500, RelayFailedMsg)]
       ELSE IF ~HasOperationId(o.result)
       THEN mail' = [mail EXCEPT !.pc = "done", !.steps = Append(@, "poll_done"),
                                 !.result = o.result,
                                 !.res = MailError(500, RelayFailedMsg)]
       ELSE mail' = [mail EXCEPT !.pc = "done", !.steps = Append(@, "poll_done"),
                                 !.result = o.result,
                                 !.res = MailSent(GetProp(o.result, <<"id">>))]
  /\ UNCHANGED <<variant, env, validate_errors, req, twin, other>>

NextMail == MailReceive \/ MailStart \/ MailSendSettled \/ MailPollDone

SpecMail == InitMail /\ [][NextMail]_vars



(***************************************************************************)
(* Properties                                                              *)
(***************************************************************************)
Done == req.pc = "done"

ConfigComplete == NeededConfig(variant) \subseteq env /\ RequiredConfig(variant) \subseteq env

Is4xx(status) == status \in 400..499

Last(seq) == seq[Len(seq)]

\* request bodies that are a JSON object whose prompt is missing, empty or
\* not a string
BadPromptBodies ==
  {<<P("{"), P("}")>>, PromptBody(S(<<>>)), PromptBody(N(5))}

BlankPromptBodies == {PromptBody(S(<<" ", "\t">>))}

NonJsonTexts ==
  { <<W("I"), WS, W("cannot"), WS, W("help")>>,
    <<P("{"), W("not"), WS, W("json")>>,
    T_valid \o <<W("x")>> }

NonObjectRootTexts == {<<P("["), N(1), P("]")>>, <<L("null")>>, <<N(1)>>}

C2_BadPromptRejected ==
  ConfigComplete /\ req.pc # "idle" /\ req.body \in BadPromptBodies =>
    /\ req.sent = <<>>
    /\ Done => Is4xx(req.res.status)

\* C3: with the configuration in place, a whitespace-only prompt is
\* rejected as an input error (4xx) and the backend is not called.
C3_BlankPromptRejected ==
  ConfigComplete /\ req.pc # "idle" /\ req.body \in BlankPromptBodies =>
    /\ req.sent = <<>>
    /\ Done => Is4xx(req.res.status) /\ req.outcome = "InputError"

\* C4: a request with a missing, empty or non-string prompt is answered
\* with the input error and a 4xx status whatever the configuration; 4xx is
\* never the answer to a configuration, provider or render error.
C4_InputErrorWhateverConfig ==
  Done =>
    /\ req.body \in BadPromptBodies =>
         Is4xx(req.res.status) /\ req.outcome = "InputError"
    /\ req.outcome \in {"ConfigurationError", "ProviderError", "RenderError"} =>
         req.res.status \in 500..599

\* C5: in every endpoint, when a configuration item the backend call needs
\* is absent, a request with a usable prompt fails with the configuration
\* error and no backend call is attempted for it.
C5_ConfigFailFast ==
  ~(NeededConfig(variant) \subseteq env) /\ req.body \in GoodPromptBodies /\ req.pc # "idle" =>
    /\ req.sent = <<>>
    /\ Done => req.outcome = "ConfigurationError" /\ req.res.status = 500

\* C6: the backend is called at most once per request; a failed request is
\* answered at once and nothing more happens to it (the next step is a new
\* invocation with no call made yet).
C6_SingleAttempt ==
  /\ [](/\ Len(req.sent) <= 1
        /\ req.outcome \notin {"none", "Rendered"} => Done /\ req.res.status >= 400)
  /\ [][Done => req'.pc = "invoked" /\ req'.sent = <<>>]_vars

C6_Witness ==
  /\ Done /\ Len(req.sent) = 1
  /\ req.outcome \in {"TransportError", "ProviderError", "EmptyGenerationError",
                      "DecodeError", "SchemaViolationError"}

Canonical == <<"Received", "Composed", "Generated", "Decoded", "Validated", "Rendered">>

\* the failure state reachable after n completed stages
FailureAfter(n) ==
  CASE n = 2 -> {"GenerationFailed"}
    [] n = 3 -> {"DecodeFailed"}
    [] n = 4 -> {"ValidationFailed"}
    [] n = 5 -> {"RenderFailed"}
    [] OTHER -> {}

C9_DecodeIsolation ==
  req.responseContent \in {Str(t) : t \in NonJsonTexts} =>
    /\ Done /\ ~req.escaped
    /\ req.validated = <<>> /\ req.rendered = <<>>
    /\ req.outcome = "DecodeError" /\ Last(req.trace) = "DecodeFailed"
    /\ req.res.status = 500 /\ req.res.body.details = DecodeMsg(variant)

C9_Witness ==
  /\ Done
  /\ req.responseContent = Str(<<W("I"), WS, W("cannot"), WS, W("help")>>)
  /\ req.outcome = "DecodeError"

\* C10: generated text that is JSON with a root other than an object is a
\* decode error, not a validation error, and the validator is not run.
C10_NonObjectRootIsDecodeError ==
  Done /\ req.responseContent \in {Str(t) : t \in NonObjectRootTexts} =>
    /\ req.outcome = "DecodeError"
    /\ req.validated = <<>>

\* completions that carry no usable text
EmptyChoices == {<<>>, <<[content |-> NullV]>>, <<[content |-> Str(<<>>)]>>}

EmptyCompletion == req.completion # Undef /\ req.completion.choices \in EmptyChoices

\* C11: a backend call that completes with no first choice, or with null or
\* empty content in the first choice, ends the request with the
\* empty-generation error: status 500, nothing was decoded or validated, and
\* the page the caller receives differs from the page of a transport failure
\* and from the page of a provider-reported error.
C11_EmptyGenerationDistinct ==
  Done /\ EmptyCompletion =>
    /\ req.outcome = "EmptyGenerationError"
    /\ req.res.status = 500
    /\ req.responseContent = Undef
    /\ req.consultationData = Undef
    /\ req.validated = <<>>
    /\ \A i \in 1..Len(req.trace) : req.trace[i] \notin {"Decoded", "DecodeFailed"}
    /\ req.res.body # CatchBody(variant, TransportMsg)
    /\ \A f \in FailureReplies :
         f.kind = "provider" => req.res.body # CatchBody(variant, ProviderMsg(variant, f.status, f.text))

C11_Witness ==
  /\ Done /\ EmptyCompletion
  /\ req.completion.choices = <<[content |-> NullV]>>
  /\ req.res.body.details = NoResponseMsg(variant)

ErrorKinds ==
  {"InputError", "ConfigurationError", "TransportError", "ProviderError",
   "EmptyGenerationError", "DecodeError", "SchemaViolationError", "RenderError"}

\* what the caller can read as category and code: the page title and the status
Category(res) == <<res.body.title, res.status>>

\* the categories the handler of variant v answers with for a failure of kind k
CategoriesFor(v, k) ==
  CASE k = "ConfigurationError" -> {<<ConfigBody(v).title, 500>>}
    [] k = "InputError" ->
         {<<EmptyBodyBody.title, 400>>, <<InvalidJsonBody(v).title, 400>>,
          <<InvalidPromptBody(v).title, 400>>}
    [] OTHER -> {<<CatchBody(v, <<>>).title, 500>>}

\* C12: every failed request ends in one of the eight error kinds, and the
\* category and code of its response are not the category and code the
\* handler answers with for a failure of any other kind.
C12_DistinctCategoryPerKind ==
  Done /\ req.res # NoRes /\ req.res.status # 200 =>
    /\ req.outcome \in ErrorKinds
    /\ \A k \in ErrorKinds \ {req.outcome} :
         Category(req.res) \notin CategoriesFor(variant, k)

\* the path of a violation as the summary prints it
PathText(path) == IF path = <<>> THEN <<"root">> ELSE path

\* entries i.. of the list, each "path: message", with ", " between entries
RECURSIVE EntriesFrom(_, _)
EntriesFrom(violations, i) ==
  IF i > Len(violations) THEN <<>>
  ELSE PathText(violations[i].instancePath) \o <<": ">> \o violations[i].message
       \o (IF i < Len(violations) THEN <<", ">> ELSE <<>>)
       \o EntriesFrom(violations, i + 1)

BuildsSummary(v) == v # "pages_chat"

\* C13: when validation fails with violations reported, the summary in the
\* error message is one entry "path: message" per violation, in the
\* validator's order, each violation once, the entries joined by ", ".
C13_SummaryIsOrderedJoin ==
  /\ Done /\ req.outcome = "SchemaViolationError" /\ BuildsSummary(variant)
  /\ req.errors.t = "array" /\ req.errors.items # <<>>
  => req.res.body.details =
       <<"AI response does not match expected format: ">>
       \o EntriesFrom(req.errors.items, 1)

C13_Witness ==
  /\ Done /\ req.outcome = "SchemaViolationError" /\ variant = "fn_azure"
  /\ req.errors.t = "array" /\ Len(req.errors.items) = 2
  /\ req.errors.items[1] # req.errors.items[2]

\* sub occurs in text as a contiguous run
Contains(text, sub) ==
  \E i \in 0..(Len(text) - Len(sub)) : SubSeq(text, i + 1, i + Len(sub)) = sub

\* the response carries the violations as a list of entries: a field of the
\* body, or the serialized list inside the message
CarriesViolationList(body, errors) ==
  \/ "violations" \in DOMAIN body /\ body.violations = errors.items
  \/ Contains(body.details, StringifyErrors(errors))

\* C14: a request that fails validation hands the caller the ordered list of
\* violations as structured entries and, next to it, the joined summary.
C14_ListAndSummarySurfaced ==
  /\ Done /\ req.outcome = "SchemaViolationError"
  /\ req.errors.t = "array" /\ req.errors.items # <<>>
  => /\ CarriesViolationList(req.res.body, req.errors)
     /\ Contains(req.res.body.details, EntriesFrom(req.errors.items, 1))

\* the decoded record has a front_matter object without the receptors field
LacksReceptors(data) ==
  /\ data.t = "object" /\ HasKey(data.fields, K_front_matter)
  /\ FieldValue(data.fields, K_front_matter).t = "object"
  /\ ~HasKey(FieldValue(data.fields, K_front_matter).fields, K_receptors)

\* the path ends with the name of the field
PathNames(path, key) ==
  Len(path) >= Len(key) /\ SubSeq(path, Len(path) - Len(key) + 1, Len(path)) = key

\* C15: a decoded record that lacks the required field front_matter.receptors
\* fails validation, and the violations of the validator include one whose
\* path names the missing field, front_matter.receptors.
C15_MissingFieldPathNamed ==
  /\ Done /\ req.validated # <<>> /\ LacksReceptors(req.validated[1])
  /\ req.errors.t = "array" /\ req.errors.items # <<>>
  => /\ req.isValid = Bool(FALSE)
     /\ \E i \in 1..Len(req.errors.items) :
          PathNames(req.errors.items[i].instancePath, K_receptors)

\* C16: when validation succeeds, the value handed to the renderer, and the
\* value in the rendered page, is the value the decoder produced from the
\* generated text: no field added, changed or removed.
C16_ValidationPreservesValue ==
  req.isValid = Bool(TRUE) /\ req.rendered # <<>> =>
    /\ req.rendered = <<JSONparse(req.responseContent.s).v>>
    /\ req.validated = req.rendered
    /\ req.outcome = "Rendered" => req.res.body.html.data = JSONparse(req.responseContent.s).v

C16_Witness ==
  /\ Done /\ req.outcome = "Rendered" /\ req.isValid = Bool(TRUE)
  /\ req.responseContent = Str(T_valid)
  /\ HasKey(FieldValue(req.res.body.html.data.fields, K_front_matter).fields, K_receptors)

\* the value of the prompt field as the request body spells it
PromptToken(body) == body[4]

ValueOfToken(tok) ==
  CASE tok.k = "str" -> Str(tok.s)
    [] tok.k = "num" -> Num(tok.n)
    [] OTHER         -> Undef

\* the pieces of text that make up the request's prompt
PromptPieces(tok) == IF tok.k = "str" THEN {tok.s[i] : i \in 1..Len(tok.s)} ELSE {}

\* C17: in every backend call the user message is the prompt of the request
\* body, piece for piece, and neither the system message nor the model name
\* holds any piece of the request's text.
C17_UserMessageIsPrompt ==
  \A i \in 1..Len(req.sent) :
    /\ req.body = PromptBody(PromptToken(req.body))
    /\ req.sent[i].user = ValueOfToken(PromptToken(req.body))
    /\ DOMAIN req.sent[i] = {"model", "system", "user"}
    /\ \A j \in 1..Len(req.sent[i].system) :
         req.sent[i].system[j] \notin PromptPieces(PromptToken(req.body))
    /\ req.sent[i].model \notin PromptPieces(PromptToken(req.body))

C17_Witness ==
  /\ req.pc = "await_backend" /\ Len(req.sent) = 1
  /\ req.body = PromptBody(S(<<" ", "ER 8/8", " ">>))
  /\ req.sent[1].user = Str(<<" ", "ER 8/8", " ">>)

\* C18: in every endpoint the system message of a backend call is the
\* endpoint's fixed text, whatever the request, and the serialized schema
\* stands in it in full.
C18_SystemMessageEmbedsSchema ==
  \A i \in 1..Len(req.sent) :
    /\ req.sent[i].system = systemContext(variant)
    /\ Contains(req.sent[i].system, StringifySchema(SchemaDoc))

ThrownKinds ==
  {"TransportError", "ProviderError", "EmptyGenerationError", "DecodeError",
   "SchemaViolationError", "RenderError", "UnclassifiedError"}

\* C19: no exception leaves the handler: an invocation that has ended has
\* produced a response, an exception raised while reading the request, calling
\* the backend, decoding, validating or rendering has become the 500 page of
\* the catch block, and a response once produced is not replaced by another
\* one for the same invocation.
C19_OneResponseNoEscape ==
  /\ [](~req.escaped)
  /\ [](Done => req.res # NoRes /\ req.res.status \in {200, 400, 500})
  /\ [](Done /\ req.outcome \in ThrownKinds =>
          req.res.status = 500 /\ req.res.body.kind = "error")
  /\ [][req.res # NoRes => req'.res = req.res \/ req'.pc = "invoked"]_vars

C19_Witness ==
  /\ Done /\ req.outcome = "RenderError" /\ ~req.escaped
  /\ req.res.status = 500 /\ req.res.body.details = RenderMsg

\* C20: the response to a failed request holds the error page's title, text
\* and summary message and nothing else: no stack trace, and nowhere the
\* text of the provider's error reply.
C20_NoProviderTextInResponse ==
  Done /\ req.res # NoRes /\ req.res.status # 200 =>
    /\ DOMAIN req.res.body = {"kind", "title", "text", "details"}
    /\ \A f \in FailureReplies :
         f.kind = "provider" =>
           /\ ~Contains(req.res.body.details, f.text)
           /\ ~Contains(req.res.body.text, f.text)

\* C21: no handler writes to the objects shared between requests; in
\* particular the errors field of the compiled validator keeps, across any
\* number of requests, the value it had after process start: it never holds
\* the violations of some request's record.
C21_ValidatorFieldsUnchanged ==
  validate_errors = NullV \/ validate_errors = Arr(<<>>)

\* C22: given the same body, complete configuration and the same backend and
\* render outcome, the key-authenticated handler and the token-provider
\* endpoint answer with the same status and the same error kind, and on
\* success with the same rendered page.
C22_KeyTokenEquivalent ==
  req.pc = "done" /\ twin.pc = "done" =>
    /\ req.res.status = twin.res.status
    /\ req.outcome = twin.outcome
    /\ req.res.status = 200 => req.res.body = twin.res.body

\* C23: when the template refers to a value the validated record does not
\* contain, the request ends in RenderFailed with the render error and
\* status 500, and no page is returned with status 200.
C23_UnresolvedReferenceFails ==
  /\ Done /\ req.body \in GoodPromptBodies
  /\ req.isValid = Bool(TRUE) /\ req.rendered # <<>>
  /\ Unresolved(req.rendered[1]) # {}
  => /\ req.outcome = "RenderError"
     /\ req.res.status = 500
     /\ req.trace[Len(req.trace)] = "RenderFailed"

\* C24: every request whose backend call has been issued ends: it reaches
\* Rendered or a failure state and is answered, whether or not the backend
\* replies.
C24_EveryRequestAnswered ==
  (req.pc = "await_backend") ~> (req.pc = "done" /\ req.res # NoRes)

\* the environment variable behind a configuration item
EnvName(item) ==
  CASE item = "endpoint"   -> "AZURE_OPENAI_ENDPOINT"
    [] item = "deployment" -> "AZURE_OPENAI_DEPLOYMENT_NAME"
    [] item = "apiVersion" -> "AZURE_OPENAI_API_VERSION"
    [] OTHER               -> "OPENAI_API_KEY"

\* the configuration items a message names as to be set
NamedItems(text) == {item \in ConfigItems : Contains(text, <<EnvName(item)>>)}

\* C25: the configuration error names the items that are missing: exactly the
\* required items absent from the environment, so that different sets of
\* missing items give different messages and a present item is not named.
C25_ConfigErrorNamesMissing ==
  Done /\ req.outcome = "ConfigurationError" /\ variant = "fn_azure" =>
    NamedItems(req.res.body.text) = RequiredConfig(variant) \ env

\* bodies that are empty or are not JSON
UnusableBodies == {<<>>, <<WS>>, <<P("{"), W("prompt")>>}

\* C26: in every endpoint, with the configuration complete, a request whose
\* body is empty or is not parseable JSON is answered with a 4xx status, as
\* an input error, and the backend is not called.
C26_UnusableBodyIs4xx ==
  Done /\ ConfigComplete /\ req.body \in UnusableBodies =>
    /\ req.res # NoRes /\ Is4xx(req.res.status)
    /\ req.outcome = "InputError"
    /\ req.sent = <<>>

\* the verdict, the violations and the message of record r are those of r's
\* own decoded record
OwnValidation(r) ==
  r.validated # <<>> =>
    /\ r.isValid = Bool(validate(r.validated[1]))
    /\ r.errors \in ErrorsAfter(r.validated[1])
    /\ r.outcome = "SchemaViolationError" /\ Truthy(r.errors) /\ r.errors.items # <<>> =>
         /\ r.errors.items = AjvErrors(SchemaDoc, r.validated[1], <<>>)
         /\ BuildsSummary(variant) =>
              r.res.body.details =
                <<"AI response does not match expected format: ">>
                \o EntriesFrom(AjvErrors(SchemaDoc, r.validated[1], <<>>), 1)

\* C27: with two requests in flight, interleaved at their awaits in any
\* order, the verdict and the violation summary of each request come from
\* that request's own decoded record, never from the violations the other
\* request's validation left in the shared validator.
C27_OwnErrorsUnderInterleaving == OwnValidation(req) /\ OwnValidation(other)

\* the other request's validation has overwritten validate.errors while req,
\* validated before, is still in flight
C27_Witness ==
  /\ req.pc = "await_render" /\ req.isValid = Bool(TRUE)
  /\ other.pc = "done" /\ other.outcome = "SchemaViolationError"
  /\ other.errors.t = "array" /\ Len(other.errors.items) = 2
  /\ validate_errors = other.errors


\* the fields the caller supplied: those of the body object, or of the object
\* the body text encodes; a body that is neither supplies none
SuppliedFields(body) ==
  IF body.t = "object" THEN body
  ELSE IF body.t = "string" /\ JSONparse(body.s).ok /\ JSONparse(body.s).v.t = "object"
  THEN JSONparse(body.s).v
  ELSE Obj(<<>>)

FieldGiven(body, field) ==
  LET value == GetProp(SuppliedFields(body), field)
  IN Truthy(value) /\ TrimText(ToStringJS(value)) # <<>>

FieldsNotGiven(body) ==
  LET absent(field) == ~FieldGiven(body, field)
  IN SelectSeq(REQUIRED_FIELDS, absent)

\* C28: the contact handler attempts a send only when the connection string,
\* the sender address and the recipient address are configured and each of the
\* five required fields is present and non-blank after trimming; otherwise it
\* sends nothing and, once it has finished, has responded 500 when the
\* configuration is missing (tested first) and else 400 with a message that
\* lists exactly the missing fields.
C28_SendOnlyWhenConfiguredAndComplete ==
  /\ mail.sends # <<>> => MailConfigured(env) /\ FieldsNotGiven(mail.body) = <<>>
  /\ mail.pc = "done" /\ ~MailConfigured(env) =>
       mail.sends = <<>> /\ mail.res.status = 500
  /\ mail.pc = "done" /\ MailConfigured(env) /\ FieldsNotGiven(mail.body) # <<>> =>
       /\ mail.sends = <<>>
       /\ mail.res = MailError(400, <<"Missing fields: ">>
                                      \o Join(FieldsNotGiven(mail.body), <<", ">>))


\* the send attempt ran to its end and its result carries an id
SendCompletedWithId ==
  /\ Len(mail.sends) = 1
  /\ mail.steps = <<"send_accepted", "poll_done">>
  /\ mail.result.t = "object"
  /\ GetProp(mail.result, <<"id">>) \notin {Undef, NullV}

\* the client constructor, the send or the polling threw, or the polling
\* ended with a result that has no id
SendFailed ==
  \/ mail.steps # <<>> /\
       mail.steps[Len(mail.steps)] \in {"client_threw", "send_rejected", "poll_rejected"}
  \/ /\ mail.steps = <<"send_accepted", "poll_done">>
     /\ GetProp(mail.result, <<"id">>) \in {Undef, NullV}

\* C29: the contact handler responds 200 with an operationId only if the
\* single send attempt completed and returned a result with an id, and the
\* operationId is that id; an exception from sending or polling, or a result
\* without an id, yields a 500 response; at most one send is attempted per
\* request.
C29_SuccessOnlyWithOperationId ==
  /\ Len(mail.sends) <= 1
  /\ mail.res.status = 200 =>
       /\ SendCompletedWithId
       /\ mail.res.operationId = GetProp(mail.result, <<"id">>)
  /\ mail.pc = "done" /\ SendFailed => mail.res.status = 500 /\ ~mail.escaped

C29_Witness ==
  /\ mail.pc = "done"
  /\ SendCompletedWithId
  /\ mail.res = MailSent(Str(<<"op-1">>))


\* a request whose contract reached sanitizeContract
ContractSanitized == mail.payload.t = "object" /\ mail.cleaned # <<>>

\* the contract as an object: itself, or what its text encodes
ContractObject(raw) ==
  IF raw.t = "string"
  THEN (IF JSONparse(raw.s).ok THEN JSONparse(raw.s).v ELSE Undef)
  ELSE raw

\* absent, unparseable or non-object input
NoContract(raw) ==
  \/ raw \in {Undef, NullV}
  \/ ContractObject(raw).t \notin {"object", "array"}

\* an input item that meets the conditions for being kept: a non-empty string
\* planName and an adjustedMonthly that converts to a finite number
Survives(item) ==
  /\ item.t = "object"
  /\ GetProp(item, <<"planName">>).t = "string"
  /\ GetProp(item, <<"planName">>).s # <<>>
  /\ ToNumber(GetProp(item, <<"adjustedMonthly">>)).finite

GivenItems(raw) ==
  LET source == GetProp(ContractObject(raw), <<"items">>)
  IN IF source.t = "array" THEN SelectSeq(source.items, Survives) ELSE <<>>

\* the supplied total is a finite number: a number, or text that spells one
IsFiniteTotal(total) ==
  \/ total.t = "number"
  \/ total.t = "string" /\ TrimText(total.s) # <<>> /\ ToNumber(total).finite

RECURSIVE SumOf(_)
SumOf(numbers) ==
  IF numbers = <<>> THEN 0 ELSE Head(numbers) + SumOf(Tail(numbers))

\* C30: sanitizeContract returns null for absent, unparseable or non-object
\* input and when no item survives; otherwise it returns a contract with at
\* least one item, every item with a non-empty string planName and a finite
\* numeric adjustedMonthly, the items in their input order, and totalMonthly
\* equal to the supplied total when that is a finite number and otherwise to
\* the sum of the kept items' adjustedMonthly.
C30_SanitizedContractShape ==
  ContractSanitized =>
    LET raw    == mail.contract
        out    == mail.contractDetails
        given  == GivenItems(raw)
        total  == GetProp(ContractObject(raw), <<"totalMonthly">>)
    IN IF NoContract(raw) \/ given = <<>>
       THEN out = NullV
       ELSE /\ out # NullV
            /\ Len(out.items) >= 1
            /\ \A i \in 1..Len(out.items) :
                 /\ out.items[i].planName.t = "string"
                 /\ out.items[i].planName.s # <<>>
                 /\ out.items[i].adjustedMonthly.t = "number"
            /\ Len(out.items) = Len(given)
            /\ \A i \in 1..Len(given) :
                 out.items[i].planName = GetProp(given[i], <<"planName">>)
            /\ out.totalMonthly =
                 IF IsFiniteTotal(total) THEN Num(ToNumber(total).n)
                 ELSE Num(SumOf([i \in 1..Len(out.items) |->
                                   out.items[i].adjustedMonthly.n]))

====
